---- MODULE Spec2Model ----
(***************************************************************************)
(* A model of the sun_angles package: day angle, solar declination,        *)
(* sunrise hour angle, daylight hours, sunrise hour, solar zenith angle    *)
(* and solar azimuth, as numpy evaluates them element by element.          *)
(*                                                                         *)
(* Numbers.  A float64 produced by the transcendental library functions    *)
(* (np.sin, np.cos, np.tan, np.arccos, np.arcsin, np.radians, np.degrees)  *)
(* is kept on the binary grid of step 2^-FracBits ("Fix" values), together *)
(* with the IEEE special values NaN and +-Inf.  The two linear functions   *)
(* daylight_from_SHA and sunrise_from_SHA are evaluated bit-exactly in     *)
(* IEEE-754 binary64, round to nearest even ("F64" values): every Fix      *)
(* value is a float64, so their inputs are exact.                          *)
(***************************************************************************)
EXTENDS Integers, Sequences, FiniteSets

VARIABLES pc, fn, args, ret, loc, prev

vars == <<pc, fn, args, ret, loc, prev>>

(***************************************************************************)
(* Bounds of the model.                                                    *)
(***************************************************************************)
\* fractional bits of the grid the transcendental functions are kept on
FracBits == 13
\* arrays have 1..MaxLen elements
MaxLen == 2

Scale == 2^FracBits

(***************************************************************************)
(* Fix values: [k |-> "num", v |-> n] is the number n / Scale.             *)
(***************************************************************************)
Num(n) == [k |-> "num", v |-> n]
NaN == [k |-> "nan", v |-> 0]
Inf(s) == [k |-> "inf", v |-> s]
FromInt(n) == Num(n * Scale)

IsNum(x) == x.k = "num"
IsNaN(x) == x.k = "nan"

Abs(n) == IF n < 0 THEN -n ELSE n
Sgn(n) == IF n < 0 THEN -1 ELSE IF n > 0 THEN 1 ELSE 0

\* n / d rounded to the nearest integer (d > 0)
RoundDiv(n, d) == (2 * n + d) \div (2 * d)

\* a * b / Scale on the grid; the operands are split so that no product
\* leaves the 32-bit integers
MulS(a, b) ==
    LET s  == Sgn(a) * Sgn(b)
        x  == Abs(a)
        y  == Abs(b)
        xq == x \div Scale
        xr == x % Scale
        yq == y \div Scale
        yr == y % Scale
    IN  s * (xq * yq * Scale + xq * yr + xr * yq + RoundDiv(xr * yr, Scale))

\* IEEE arithmetic on Fix values
FNeg(x) == IF IsNum(x) THEN Num(-x.v) ELSE IF IsNaN(x) THEN NaN ELSE Inf(-x.v)

FAdd(x, y) ==
    IF IsNaN(x) \/ IsNaN(y) THEN NaN
    ELSE IF IsNum(x) /\ IsNum(y) THEN Num(x.v + y.v)
    ELSE IF IsNum(x) THEN y
    ELSE IF IsNum(y) THEN x
    ELSE IF x.v = y.v THEN x ELSE NaN

FSub(x, y) == FAdd(x, FNeg(y))

FMul(x, y) ==
    IF IsNaN(x) \/ IsNaN(y) THEN NaN
    ELSE IF IsNum(x) /\ IsNum(y) THEN Num(MulS(x.v, y.v))
    ELSE LET sx == IF IsNum(x) THEN Sgn(x.v) ELSE x.v
             sy == IF IsNum(y) THEN Sgn(y.v) ELSE y.v
         IN  IF sx * sy = 0 THEN NaN ELSE Inf(sx * sy)

\* x / y: a finite x over zero is +-Inf, 0 / 0 is NaN (numpy warns, it
\* does not raise)
FDiv(x, y) ==
    IF IsNaN(x) \/ IsNaN(y) THEN NaN
    ELSE IF IsNum(x) /\ IsNum(y) THEN
         IF y.v = 0 THEN (IF x.v = 0 THEN NaN ELSE Inf(Sgn(x.v)))
         ELSE LET q == Abs(x.v) \div Abs(y.v)
                  r == Abs(x.v) % Abs(y.v)
              IN  Num(Sgn(x.v) * Sgn(y.v)
                      * (q * Scale + RoundDiv(r * Scale, Abs(y.v))))
    ELSE IF IsNum(x) THEN Num(0)
    ELSE IF IsNum(y) THEN Inf(x.v * (IF y.v < 0 THEN -1 ELSE 1))
    ELSE NaN

\* comparisons with an integer constant; a comparison with NaN is False
FGe(x, c) == IF IsNum(x) THEN x.v >= c * Scale ELSE x.k = "inf" /\ x.v > 0
FLe(x, c) == IF IsNum(x) THEN x.v <= c * Scale ELSE x.k = "inf" /\ x.v < 0

(***************************************************************************)
(* The transcendental functions on the grid.                               *)
(***************************************************************************)
\* pi / 2 and pi, with pi ~ 355 / 113
HalfPi == RoundDiv(355 * Scale, 226)
Pi == 2 * HalfPi
QuarterPi == HalfPi \div 2

\* sin and cos on [0, pi/4] by their Taylor polynomials
SinT(x) ==
    LET x2 == MulS(x, x)
        t3 == Scale - RoundDiv(x2, 42)
        t2 == Scale - MulS(RoundDiv(x2, 20), t3)
        t1 == Scale - MulS(RoundDiv(x2, 6), t2)
    IN  MulS(x, t1)

CosT(x) ==
    LET x2 == MulS(x, x)
        t4 == Scale - RoundDiv(x2, 56)
        t3 == Scale - MulS(RoundDiv(x2, 30), t4)
        t2 == Scale - MulS(RoundDiv(x2, 12), t3)
    IN  Scale - MulS(RoundDiv(x2, 2), t2)

\* on [0, pi/2]
SinQ(x) == IF x <= QuarterPi THEN SinT(x) ELSE CosT(HalfPi - x)
CosQ(x) == IF x <= QuarterPi THEN CosT(x) ELSE SinT(HalfPi - x)

SinV(x) ==
    LET y == Abs(x) % (2 * Pi)
        z == IF y >= Pi THEN y - Pi ELSE y
        w == IF z > HalfPi THEN Pi - z ELSE z
    IN  Sgn(x) * (IF y >= Pi THEN -1 ELSE 1) * SinQ(w)

CosV(x) ==
    LET y == Abs(x) % (2 * Pi)
        z == IF y > Pi THEN 2 * Pi - y ELSE y
    IN  IF z > HalfPi THEN -CosQ(Pi - z) ELSE CosQ(z)

\* the least y in [lo+1, hi] with CosQ(y) <= c, for 0 <= c <= Scale
RECURSIVE ArcCosSearch(_, _, _)
ArcCosSearch(c, lo, hi) ==
    IF hi - lo <= 1 THEN hi
    ELSE LET mid == (lo + hi) \div 2
         IN  IF CosQ(mid) <= c THEN ArcCosSearch(c, lo, mid)
             ELSE ArcCosSearch(c, mid, hi)

ArcCosV(c) ==
    IF c >= 0 THEN ArcCosSearch(c, -1, HalfPi)
    ELSE Pi - ArcCosSearch(-c, -1, HalfPi)

Sin(x) == IF IsNum(x) THEN Num(SinV(x.v)) ELSE NaN
Cos(x) == IF IsNum(x) THEN Num(CosV(x.v)) ELSE NaN

\* np.tan is finite at every float64: no float64 is an odd multiple of
\* pi/2, where the grid's cosine is 0 the tangent is the largest value
Tan(x) ==
    IF ~IsNum(x) THEN NaN
    ELSE LET s == SinV(x.v)
             c == CosV(x.v)
         IN  IF c = 0 THEN Num(Sgn(s) * 2 * Scale * Scale)
             ELSE FDiv(Num(s), Num(c))

\* arccos and arcsin are NaN outside [-1, 1] (a warning, not an error)
ArcCos(x) ==
    IF IsNum(x) /\ Abs(x.v) <= Scale THEN Num(ArcCosV(x.v)) ELSE NaN

ArcSin(x) ==
    IF IsNum(x) /\ Abs(x.v) <= Scale THEN Num(HalfPi - ArcCosV(x.v)) ELSE NaN

\* np.radians: degrees * pi / 180
Radians(x) ==
    IF IsNum(x) THEN Num(Sgn(x.v) * RoundDiv(Abs(x.v) * 355, 20340))
    ELSE x

\* np.degrees: radians * 180 / pi
Degrees(x) ==
    IF IsNum(x) THEN
        LET t == Abs(x.v) * 180
            q == t \div Pi
            r == t % Pi
        IN  Num(Sgn(x.v) * (q * Scale + RoundDiv(r * Scale, Pi)))
    ELSE x

(***************************************************************************)
(* day_angle.py, declination.py                                            *)
(***************************************************************************)
\* c / 10^6 times the grid value x, c >= 0 a coefficient in millionths
MicroMul(c, x) ==
    RoundDiv((c \div 1000) * x + RoundDiv((c % 1000) * x, 1000), 1000)

\* a fault: the day of the year taken as the day's number, without the
\* "- 1" of line 23
day_angle_without_offset(DOY) ==
    [i \in DOMAIN DOY |-> Num(RoundDiv(2 * Pi * DOY[i], 365))]

\* the divisor of the day angle
DaysInYear == 365

day_angle_rad_from_DOY(DOY) ==
    [i \in DOMAIN DOY |-> Num(RoundDiv(2 * Pi * (DOY[i] - 1), DaysInYear))]

solar_dec_deg_from_day_angle_rad(day_angle_rad) ==
    [i \in DOMAIN day_angle_rad |->
        LET a == day_angle_rad[i]
        IN  IF ~IsNum(a) THEN NaN
            ELSE Degrees(Num(
                    MicroMul(6918, Scale)
                  - MicroMul(399912, CosV(a.v))
                  + MicroMul(70257, SinV(a.v))
                  - MicroMul(6758, CosV(2 * a.v))
                  + MicroMul(907, SinV(2 * a.v))
                  - MicroMul(2697, CosV(3 * a.v))
                  + MicroMul(1480, SinV(3 * a.v))))]

(***************************************************************************)
(* F64 values: IEEE-754 binary64 numbers, exactly.  A magnitude is a whole *)
(* number of units of 2^-F64Frac, written as its digits in base 2^15,      *)
(* least significant first and without leading zeros;                      *)
(* [k |-> "f64", neg |-> s, mag |-> m] is (-1)^s * m * 2^-F64Frac.         *)
(* F64Frac leaves 60 bits below the Fix grid, so that every float64 the    *)
(* two linear functions produce from a Fix input is a whole number of      *)
(* units.                                                                  *)
(***************************************************************************)
F64Frac == FracBits + 60
Base == 2^15

Digit(a, i) == IF 1 <= i /\ i <= Len(a) THEN a[i] ELSE 0

RECURSIVE Trim(_)
Trim(a) ==
    IF Len(a) = 0 \/ a[Len(a)] # 0 THEN a ELSE Trim(SubSeq(a, 1, Len(a) - 1))

RECURSIVE NatDigits(_)
NatDigits(n) == IF n = 0 THEN <<>> ELSE <<n % Base>> \o NatDigits(n \div Base)

RECURSIVE BitLen(_)
BitLen(n) == IF n = 0 THEN 0 ELSE 1 + BitLen(n \div 2)

\* the number of significant bits of a magnitude
MagBits(a) == IF Len(a) = 0 THEN 0 ELSE 15 * (Len(a) - 1) + BitLen(a[Len(a)])

RECURSIVE AddFrom(_, _, _, _)
AddFrom(a, b, i, carry) ==
    IF i > Len(a) /\ i > Len(b) THEN NatDigits(carry)
    ELSE LET t == Digit(a, i) + Digit(b, i) + carry
         IN  <<t % Base>> \o AddFrom(a, b, i + 1, t \div Base)

MagAdd(a, b) == AddFrom(a, b, 1, 0)

\* a - b for a >= b
RECURSIVE SubFrom(_, _, _, _)
SubFrom(a, b, i, borrow) ==
    IF i > Len(a) THEN <<>>
    ELSE LET t == a[i] - Digit(b, i) - borrow
         IN  <<t % Base>> \o SubFrom(a, b, i + 1, IF t < 0 THEN 1 ELSE 0)

MagSub(a, b) == Trim(SubFrom(a, b, 1, 0))

\* a < b, comparing from the most significant digit i down
RECURSIVE LessFrom(_, _, _)
LessFrom(a, b, i) ==
    IF i = 0 THEN FALSE
    ELSE IF a[i] # b[i] THEN a[i] < b[i]
    ELSE LessFrom(a, b, i - 1)

MagLess(a, b) ==
    IF Len(a) # Len(b) THEN Len(a) < Len(b) ELSE LessFrom(a, b, Len(a))

\* a * 2^n and floor(a / 2^n)
ShiftL(a, n) ==
    LET q == n \div 15
        r == n % 15
    IN  Trim([i \in 1..(Len(a) + q + 1) |->
                (Digit(a, i - q) % 2^(15 - r)) * 2^r
              + Digit(a, i - q - 1) \div 2^(15 - r)])

ShiftR(a, n) ==
    LET q == n \div 15
        r == n % 15
    IN  IF Len(a) <= q THEN <<>>
        ELSE Trim([i \in 1..(Len(a) - q) |->
                    a[i + q] \div 2^r + (Digit(a, i + q + 1) % 2^r) * 2^(15 - r)])

\* a * n for one digit n, and for n < 2^30
RECURSIVE MulFrom(_, _, _, _)
MulFrom(a, n, i, carry) ==
    IF i > Len(a) THEN NatDigits(carry)
    ELSE LET t == a[i] * n + carry
         IN  <<t % Base>> \o MulFrom(a, n, i + 1, t \div Base)

MagMul(a, n) ==
    Trim(MagAdd(MulFrom(a, n % Base, 1, 0),
                ShiftL(MulFrom(a, n \div Base, 1, 0), 15)))

\* a divided by one digit d, from digit i down with remainder rem: the
\* quotient's digits 1..i and the final remainder
RECURSIVE DivFrom(_, _, _, _)
DivFrom(a, d, i, rem) ==
    IF i = 0 THEN [q |-> <<>>, r |-> rem]
    ELSE LET cur  == rem * Base + a[i]
             rest == DivFrom(a, d, i - 1, cur % d)
         IN  [q |-> Append(rest.q, cur \div d), r |-> rest.r]

\* round to nearest, ties to even, at 53 significant bits
Round53(a) ==
    IF MagBits(a) <= 53 THEN a
    ELSE LET d      == MagBits(a) - 53
             kept   == ShiftR(a, d)
             low    == MagSub(a, ShiftL(kept, d))
             half   == ShiftL(<<1>>, d - 1)
             up     == \/ MagLess(half, low)
                       \/ low = half /\ kept[1] % 2 = 1
         IN  ShiftL(IF up THEN MagAdd(kept, <<1>>) ELSE kept, d)

F64(s, m) == [k |-> "f64", neg |-> s /\ Len(m) > 0, mag |-> m]
F64NaN == [k |-> "nan", neg |-> FALSE, mag |-> <<>>]

\* a whole number, and a Fix value, as the float64 they are
F64Int(n) == F64(n < 0, ShiftL(NatDigits(Abs(n)), F64Frac))
F64FromFix(x) ==
    IF IsNum(x) THEN F64(x.v < 0, ShiftL(NatDigits(Abs(x.v)), F64Frac - FracBits))
    ELSE F64NaN

\* x / n for a whole n, 0 < n < 2^15: the quotient is taken 15 bits below
\* the unit and carries a sticky bit below the rounding position
F64DivInt(x, n) ==
    IF x.k = "nan" THEN F64NaN
    ELSE LET m == ShiftL(x.mag, 15)
             d == DivFrom(m, n, Len(m), 0)
             q == Trim(d.q)
             t == IF d.r = 0 THEN q ELSE MagAdd(ShiftL(q, 1), <<1>>)
             e == IF d.r = 0 THEN 15 ELSE 16
         IN  F64(x.neg, ShiftR(Round53(t), e))

\* x * y for a Fix value y
F64MulFix(x, y) ==
    IF x.k = "nan" \/ ~IsNum(y) THEN F64NaN
    ELSE F64(x.neg # (y.v < 0),
             ShiftR(Round53(MagMul(x.mag, Abs(y.v))), FracBits))

F64Neg(x) == IF x.k = "nan" THEN F64NaN ELSE F64(~x.neg, x.mag)

\* the exact sum, and the float64 sum
F64ExactAdd(x, y) ==
    IF x.k = "nan" \/ y.k = "nan" THEN F64NaN
    ELSE IF x.neg = y.neg THEN F64(x.neg, MagAdd(x.mag, y.mag))
    ELSE IF MagLess(x.mag, y.mag) THEN F64(y.neg, MagSub(y.mag, x.mag))
    ELSE F64(x.neg, MagSub(x.mag, y.mag))

F64Add(x, y) ==
    LET s == F64ExactAdd(x, y)
    IN  IF s.k = "nan" THEN s ELSE F64(s.neg, Round53(s.mag))

F64Sub(x, y) == F64Add(x, F64Neg(y))

\* x <= y; False when either is NaN
F64Le(x, y) ==
    /\ x.k = "f64" /\ y.k = "f64"
    /\ IF x.neg # y.neg THEN x.neg
       ELSE IF x.neg THEN ~MagLess(x.mag, y.mag)
       ELSE ~MagLess(y.mag, x.mag)

(***************************************************************************)
(* daylight.py, sunrise.py                                                 *)
(***************************************************************************)
\* a fault: the half day, SHA / 15, for the day
daylight_half(SHA_deg) ==
    [i \in DOMAIN SHA_deg |-> F64DivInt(F64FromFix(SHA_deg[i]), 15)]

daylight_from_SHA(SHA_deg) ==
    [i \in DOMAIN SHA_deg |->
        F64MulFix(F64DivInt(F64Int(2), 15), SHA_deg[i])]

\* a fault: the sunset hour, 12 + SHA / 15, for the sunrise hour
sunrise_as_sunset(SHA_deg) ==
    [i \in DOMAIN SHA_deg |->
        F64Add(F64Int(12), F64DivInt(F64FromFix(SHA_deg[i]), 15))]

sunrise_from_SHA(SHA_deg) ==
    [i \in DOMAIN SHA_deg |->
        F64Sub(F64Int(12), F64DivInt(F64FromFix(SHA_deg[i]), 15))]

(***************************************************************************)
(* numpy applies its operations element by element: an array is a          *)
(* sequence, the result has the argument's shape.                          *)
(***************************************************************************)
Map1(Op(_), a) == [i \in DOMAIN a |-> Op(a[i])]
Map2(Op(_, _), a, b) == [i \in DOMAIN a |-> Op(a[i], b[i])]
\* a fault: the condition reduced over the whole array (cond.any())
Where_any(cond, c, a) ==
    [i \in DOMAIN a |-> IF \E j \in DOMAIN cond : cond[j] THEN c ELSE a[i]]

\* np.where(cond, c, a) for a scalar c
Where(cond, c, a) == [i \in DOMAIN a |-> IF cond[i] THEN c ELSE a[i]]

(***************************************************************************)
(* SHA.py.  SHA_locals is the function's local variables at its return,    *)
(* computed step by step, each step from the values of the steps before.   *)
(***************************************************************************)
\* lines 39-47: -np.tan(latitude_rad) * np.tan(solar_dec_rad)
SHA_sunrise_cos(latitude, solar_dec_deg) ==
    Map2(FMul, Map1(FNeg, Map1(Tan, Map1(Radians, latitude))),
               Map1(Tan, Map1(Radians, solar_dec_deg)))

\* a fault: the polar elements recognised by the NaN of the arccos, which
\* does not tell the polar day from the polar night
SHA_polar_correction_from_nan(sunrise_cos, sunrise_deg) ==
    [i \in DOMAIN sunrise_deg |->
        IF IsNaN(sunrise_deg[i]) THEN FromInt(0) ELSE sunrise_deg[i]]

\* lines 57-59: the two np.where on the cosine, after the arccos
SHA_polar_correction(sunrise_cos, sunrise_deg) ==
    Where([i \in DOMAIN sunrise_cos |-> FLe(sunrise_cos[i], -1)], FromInt(180),
          Where([i \in DOMAIN sunrise_cos |-> FGe(sunrise_cos[i], 1)], FromInt(0),
                sunrise_deg))

\* lines 49-61
SHA_from_rad(solar_dec_deg, sunrise_cos, sunrise_rad) ==
    [solar_dec_deg |-> solar_dec_deg,
     sunrise_cos   |-> sunrise_cos,
     sunrise_rad   |-> sunrise_rad,
     sunrise_deg   |-> SHA_polar_correction(sunrise_cos,
                                            Map1(Degrees, sunrise_rad))]

SHA_from_cos(solar_dec_deg, sunrise_cos) ==
    SHA_from_rad(solar_dec_deg, sunrise_cos, Map1(ArcCos, sunrise_cos))

SHA_from_dec(latitude, solar_dec_deg) ==
    SHA_from_cos(solar_dec_deg, SHA_sunrise_cos(latitude, solar_dec_deg))

SHA_locals(DOY, latitude) ==
    SHA_from_dec(latitude,
                 solar_dec_deg_from_day_angle_rad(day_angle_rad_from_DOY(DOY)))

SHA_deg_from_DOY_lat(DOY, latitude) == SHA_locals(DOY, latitude).sunrise_deg

(***************************************************************************)
(* SZA.py                                                                  *)
(***************************************************************************)
\* a fault: the hour angle counted from noon backwards, 180 - 15 * hour
hour_angle_reversed(hour) ==
    [i \in DOMAIN hour |-> FSub(FromInt(180), FMul(hour[i], FromInt(15)))]

\* hour * 15.0 - 180.0 (SZA.py line 46, azimuth.py line 34)
hour_angle_deg_from_hour(hour) ==
    [i \in DOMAIN hour |-> FSub(FMul(hour[i], FromInt(15)), FromInt(180))]

\* line 52, the argument of the arccos
SZA_cos(latitude_rad, solar_dec_rad, hour_angle_rad) ==
    Map2(FAdd,
         Map2(FMul, Map1(Sin, latitude_rad), Map1(Sin, solar_dec_rad)),
         Map2(FMul, Map2(FMul, Map1(Cos, latitude_rad), Map1(Cos, solar_dec_rad)),
                    Map1(Cos, hour_angle_rad)))

\* a fault: arcsin for arccos (the elevation for the zenith angle)
SZA_from_cos_arcsin(hour_angle_deg, cos_SZA) ==
    [hour_angle_deg |-> hour_angle_deg,
     cos_SZA        |-> cos_SZA,
     SZA_deg        |-> Map1(Degrees, Map1(ArcSin, cos_SZA))]

\* lines 52-58
SZA_from_cos(hour_angle_deg, cos_SZA) ==
    [hour_angle_deg |-> hour_angle_deg,
     cos_SZA        |-> cos_SZA,
     SZA_deg        |-> Map1(Degrees, Map1(ArcCos, cos_SZA))]

SZA_from_hour_angle(latitude, solar_dec_deg, hour_angle_deg) ==
    SZA_from_cos(hour_angle_deg,
                 SZA_cos(Map1(Radians, latitude), Map1(Radians, solar_dec_deg),
                         Map1(Radians, hour_angle_deg)))

SZA_locals(latitude, solar_dec_deg, hour) ==
    SZA_from_hour_angle(latitude, solar_dec_deg, hour_angle_deg_from_hour(hour))

SZA_deg_from_lat_dec_hour(latitude, solar_dec_deg, hour) ==
    SZA_locals(latitude, solar_dec_deg, hour).SZA_deg

calculate_SZA_from_DOY_and_hour(lat, lon, DOY, hour) ==
    SZA_deg_from_lat_dec_hour(
        lat, solar_dec_deg_from_day_angle_rad(day_angle_rad_from_DOY(DOY)), hour)

(***************************************************************************)
(* azimuth.py                                                              *)
(***************************************************************************)
\* a fault: the division guarded, 0 where sin(SZA) is 0
azimuth_ratio_guarded(solar_dec_rad, SZA_rad, hour_angle_rad) ==
    [i \in DOMAIN SZA_rad |->
        IF Sin(SZA_rad[i]) = Num(0) THEN Num(0)
        ELSE FDiv(FMul(FNeg(Sin(hour_angle_rad[i])), Cos(solar_dec_rad[i])),
                  Sin(SZA_rad[i]))]

\* line 38, the argument of the arcsin.  (At SZA_deg = 180 the grid's sine
\* is 0 where float64's is 1.2e-16: no property here reads the azimuth of
\* such an element.)
azimuth_ratio(solar_dec_rad, SZA_rad, hour_angle_rad) ==
    Map2(FDiv,
         Map2(FMul, Map1(FNeg, Map1(Sin, hour_angle_rad)), Map1(Cos, solar_dec_rad)),
         Map1(Sin, SZA_rad))

\* lines 38-42
azimuth_from_ratio(hour_angle_deg, ratio) ==
    [hour_angle_deg    |-> hour_angle_deg,
     ratio             |-> ratio,
     solar_azimuth_deg |-> Map1(Degrees, Map1(ArcSin, ratio))]

azimuth_from_hour_angle(solar_dec_deg, SZA_deg, hour_angle_deg) ==
    azimuth_from_ratio(hour_angle_deg,
                       azimuth_ratio(Map1(Radians, solar_dec_deg),
                                     Map1(Radians, SZA_deg),
                                     Map1(Radians, hour_angle_deg)))

azimuth_locals(solar_dec_deg, SZA_deg, hour) ==
    azimuth_from_hour_angle(solar_dec_deg, SZA_deg, hour_angle_deg_from_hour(hour))

calculate_solar_azimuth(solar_dec_deg, SZA_deg, hour) ==
    azimuth_locals(solar_dec_deg, SZA_deg, hour).solar_azimuth_deg

(***************************************************************************)
(* SZA.py, calculate_SZA_from_datetime.  The names bound in the module's   *)
(* namespace are its imports (lines 1-10) and its three functions; a name  *)
(* that is not among them (nor a builtin) raises NameError when the line   *)
(* that reads it runs.                                                     *)
(***************************************************************************)
SZA_module_names ==
    {"Union", "datetime", "np", "Raster", "solar_day_of_year_for_longitude",
     "day_angle_rad_from_DOY", "solar_dec_deg_from_day_angle_rad",
     "SZA_deg_from_lat_dec_hour", "calculate_SZA_from_DOY_and_hour",
     "calculate_SZA_from_datetime"}

Raise(e) == [k |-> "raise", exc |-> e]

\* the external solar-time provider: the UTC day, or the day before or
\* after it
solar_day_of_year_for_longitude(time_UTC, lon) ==
    {d \in {time_UTC.doy - 1, time_UTC.doy, time_UTC.doy + 1} : d >= 1}

\* the set of outcomes of a call
calculate_SZA_from_datetime(time_UTC, lat, lon) ==
    IF "hour_of_day" \notin SZA_module_names THEN {Raise("NameError")}
    ELSE {calculate_SZA_from_DOY_and_hour(<<lat>>, <<lon>>, <<doy>>,
                                          <<time_UTC.hour>>)[1] :
            doy \in solar_day_of_year_for_longitude(time_UTC, lon)}

(***************************************************************************)
(* The state: a call of one of the package's functions.  pc is "call"      *)
(* before the function has run and "done" after; fn and args are the       *)
(* function and its arguments, ret its result, loc its local variables at  *)
(* the return, prev the call that came before (its args, ret and loc).     *)
(***************************************************************************)
None == [k |-> "none"]

\* the grid point n / d
Deg(n, d) == Num(RoundDiv(n * Scale, d))

Call(f, a) ==
    /\ pc = "call"
    /\ fn = f
    /\ args = a
    /\ ret = None
    /\ loc = None
    /\ prev = None

Return(f, r, l) ==
    /\ pc = "call"
    /\ fn = f
    /\ pc' = "done"
    /\ ret' = r
    /\ loc' = l
    /\ UNCHANGED <<fn, args, prev>>

\* the result is the local variable named v
ReturnLocal(f, l, v) == Return(f, l[v], l)

Call_day_angle ==
    Return("day_angle_rad_from_DOY", day_angle_rad_from_DOY(args[1]), None)

Call_declination ==
    Return("solar_dec_deg_from_day_angle_rad",
           solar_dec_deg_from_day_angle_rad(args[1]), None)

Call_SHA ==
    ReturnLocal("SHA_deg_from_DOY_lat", SHA_locals(args[1], args[2]),
                "sunrise_deg")

Call_daylight ==
    Return("daylight_from_SHA", daylight_from_SHA(args[1]), None)

Call_sunrise ==
    Return("sunrise_from_SHA", sunrise_from_SHA(args[1]), None)

Call_SZA ==
    ReturnLocal("SZA_deg_from_lat_dec_hour",
                SZA_locals(args[1], args[2], args[3]), "SZA_deg")

Call_SZA_from_DOY_and_hour ==
    Return("calculate_SZA_from_DOY_and_hour",
           calculate_SZA_from_DOY_and_hour(args[1], args[2], args[3], args[4]),
           None)

Call_SZA_from_datetime ==
    \E r \in calculate_SZA_from_datetime(args[1], args[2], args[3]) :
        Return("calculate_SZA_from_datetime", r, None)

Call_azimuth ==
    ReturnLocal("calculate_solar_azimuth",
                azimuth_locals(args[1], args[2], args[3]), "solar_azimuth_deg")

\* the caller passes a result on to the next function of the chain
Then(f, g, a) ==
    /\ pc = "done"
    /\ fn = f
    /\ pc' = "call"
    /\ fn' = g
    /\ args' = a
    /\ ret' = None
    /\ loc' = None
    /\ prev' = [k |-> "call", args |-> args, ret |-> ret, loc |-> loc]

Then_declination ==
    Then("day_angle_rad_from_DOY", "solar_dec_deg_from_day_angle_rad", <<ret>>)
Then_daylight == Then("SHA_deg_from_DOY_lat", "daylight_from_SHA", <<ret>>)
Then_sunrise == Then("daylight_from_SHA", "sunrise_from_SHA", args)
Then_azimuth ==
    Then("SZA_deg_from_lat_dec_hour", "calculate_solar_azimuth",
         <<args[2], ret, args[3]>>)

(***************************************************************************)
(* Spec: every function of the package called on arrays of 1..MaxLen       *)
(* elements, and called again with one element of its arguments changed;   *)
(* calculate_SZA_from_datetime called on scalars.                          *)
(***************************************************************************)
ArrayFns ==
    {"day_angle_rad_from_DOY", "solar_dec_deg_from_day_angle_rad",
     "SHA_deg_from_DOY_lat", "daylight_from_SHA", "sunrise_from_SHA",
     "SZA_deg_from_lat_dec_hour", "calculate_SZA_from_DOY_and_hour",
     "calculate_solar_azimuth"}

\* the values an element of the arguments of f takes: one tuple, with one
\* entry for each argument
Elements(f) ==
    CASE f = "day_angle_rad_from_DOY" -> {<<d>> : d \in {1, 172, DaysInYear}}
      [] f = "solar_dec_deg_from_day_angle_rad" ->
            {<<FromInt(r)>> : r \in {0, 3, 6}}
      [] f = "SHA_deg_from_DOY_lat" ->
            {<<d, FromInt(lat)>> : d \in {1, 172}, lat \in {0, 80}}
      [] f \in {"daylight_from_SHA", "sunrise_from_SHA"} ->
            {<<FromInt(sha)>> : sha \in {0, 90, 124, 180}}
      [] f = "SZA_deg_from_lat_dec_hour" ->
            {<<FromInt(lat), FromInt(dec), FromInt(h)>> :
                lat \in {0, 45}, dec \in {0, 20}, h \in {6, 12}}
      [] f = "calculate_SZA_from_DOY_and_hour" ->
            {<<FromInt(lat), FromInt(0), d, FromInt(h)>> :
                lat \in {0, 45}, d \in {1, 172}, h \in {12, 18}}
      [] f = "calculate_solar_azimuth" ->
            {<<FromInt(dec), FromInt(sza), FromInt(h)>> :
                dec \in {0, 20}, sza \in {0, 60}, h \in {9, 12}}

Arrays(E) == UNION {[1..n -> E] : n \in 1..MaxLen}

\* the arguments of a call, from the array of its elements
Columns(a) == [j \in DOMAIN a[1] |-> [i \in DOMAIN a |-> a[i][j]]]

\* the time's UTC day of the year and hour
Times == [doy : {1, 172, DaysInYear}, hour : {FromInt(0), FromInt(12)}]

Init ==
    \/ \E f \in ArrayFns : \E a \in Arrays(Elements(f)) : Call(f, Columns(a))
    \/ \E t \in Times : \E lat \in {-45, 0, 45}, lon \in {-120, 0, 120} :
          Call("calculate_SZA_from_datetime", <<t, FromInt(lat), FromInt(lon)>>)

\* the caller calls the function again with element j changed
Change ==
    /\ pc = "done"
    /\ fn \in ArrayFns
    /\ prev.k = "none"
    /\ \E j \in DOMAIN args[1] : \E e \in Elements(fn) :
          /\ \E n \in DOMAIN args : args[n][j] # e[n]
          /\ args' = [n \in DOMAIN args |-> [args[n] EXCEPT ![j] = e[n]]]
    /\ pc' = "call"
    /\ ret' = None
    /\ loc' = None
    /\ prev' = [k |-> "call", args |-> args, ret |-> ret, loc |-> loc]
    /\ UNCHANGED fn

Next ==
    \/ Call_day_angle
    \/ Call_declination
    \/ Call_SHA
    \/ Call_daylight
    \/ Call_sunrise
    \/ Call_SZA
    \/ Call_SZA_from_DOY_and_hour
    \/ Call_SZA_from_datetime
    \/ Call_azimuth
    \/ Change

Spec == Init /\ [][Next]_vars

(***************************************************************************)
(* SpecSHA: the sunrise hour angle of every day of the year at the         *)
(* latitudes 90 * k / LatDiv, and the daylight hours computed from it.     *)
(***************************************************************************)
LatDiv == 30

Init_SHA ==
    \E d \in 1..DaysInYear, k \in -LatDiv..LatDiv :
        Call("SHA_deg_from_DOY_lat", << <<d>>, <<Deg(90 * k, LatDiv)>> >>)

Next_SHA == Call_SHA \/ Then_daylight \/ Call_daylight

SpecSHA == Init_SHA /\ [][Next_SHA]_vars

(***************************************************************************)
(* SpecDaylight: the daylight hours and the sunrise hour of the sunrise    *)
(* hour angles k / ShaDiv of [0, 180].                                     *)
(***************************************************************************)
ShaDiv == 2

Init_Daylight ==
    \E k \in 0..(180 * ShaDiv) :
        Call("daylight_from_SHA", << <<Deg(k, ShaDiv)>> >>)

Next_Daylight == Call_daylight \/ Then_sunrise \/ Call_sunrise

SpecDaylight == Init_Daylight /\ [][Next_Daylight]_vars

(***************************************************************************)
(* SpecDayAngle: the day angle and the declination of every day.           *)
(***************************************************************************)
Init_DayAngle ==
    \E d \in 1..DaysInYear : Call("day_angle_rad_from_DOY", << <<d>> >>)

Next_DayAngle == Call_day_angle \/ Then_declination \/ Call_declination

SpecDayAngle == Init_DayAngle /\ [][Next_DayAngle]_vars

(***************************************************************************)
(* SpecSZA: the zenith angle, and the azimuth computed from it, at the     *)
(* latitudes 90 * k / SzaLatDiv, the declinations 90 * k / DecDiv and the  *)
(* hours k / HourDiv of [0, 24].                                           *)
(***************************************************************************)
SzaLatDiv == 6
DecDiv == 6
HourDiv == 1

Init_SZA ==
    \E l \in -SzaLatDiv..SzaLatDiv, d \in -DecDiv..DecDiv,
       h \in 0..(24 * HourDiv) :
        Call("SZA_deg_from_lat_dec_hour",
             << <<Deg(90 * l, SzaLatDiv)>>, <<Deg(90 * d, DecDiv)>>,
                <<Deg(h, HourDiv)>> >>)

Next_SZA == Call_SZA \/ Then_azimuth \/ Call_azimuth

SpecSZA == Init_SZA /\ [][Next_SZA]_vars

(***************************************************************************)
(* The properties.                                                         *)
(***************************************************************************)
Done(f) == pc = "done" /\ fn = f

\* C1 (SpecSHA): with cos_sha the value SHA_deg_from_DOY_lat computes
\* before the arccos, the result is exactly 0 where cos_sha >= 1, exactly
\* 180 where cos_sha <= -1 and the arccos of cos_sha in degrees elsewhere;
\* the NaN the arccos gave at an out-of-range element is not returned.
C1_PolarCorrection ==
    Done("SHA_deg_from_DOY_lat") =>
        \A i \in DOMAIN ret :
            /\ FGe(loc.sunrise_cos[i], 1) => ret[i] = FromInt(0)
            /\ FLe(loc.sunrise_cos[i], -1) => ret[i] = FromInt(180)
            /\ ~FGe(loc.sunrise_cos[i], 1) /\ ~FLe(loc.sunrise_cos[i], -1)
                  => ret[i] = Degrees(ArcCos(loc.sunrise_cos[i]))
            /\ ~IsNaN(ret[i])

\* a polar day: the cosine is below -1, the arccos gave NaN, 180 is returned
C1_Witness ==
    /\ Done("SHA_deg_from_DOY_lat")
    /\ loc.sunrise_cos[1].k = "num"
    /\ loc.sunrise_cos[1].v < -Scale
    /\ IsNaN(loc.sunrise_rad[1])
    /\ ret[1] = FromInt(180)

\* 2^-n as an F64 magnitude, and |x - y| for two F64 numbers
Pow2Neg(n) == ShiftL(<<1>>, F64Frac - n)
F64Dist(x, y) == F64ExactAdd(x, F64Neg(y)).mag

\* daylight + 2 * sunrise as float64 arithmetic gives it, in the state
\* where sunrise_from_SHA has returned and daylight_from_SHA before it
DaylightPlusTwiceSunrise(i) == F64Add(prev.ret[i], F64Add(ret[i], ret[i]))

\* C2 as stated (SpecDaylight): for every SHA in [0, 180],
\* daylight_from_SHA(SHA) + 2 * sunrise_from_SHA(SHA) equals 24.
C2_SumIs24 ==
    Done("sunrise_from_SHA") =>
        \A i \in DOMAIN ret : DaylightPlusTwiceSunrise(i) = F64Int(24)

\* C2 amended (SpecDaylight): for every SHA in [0, 180],
\* daylight_from_SHA(SHA) + 2 * sunrise_from_SHA(SHA) is within 2^-47 of
\* 24, neither of the two is NaN, and at SHA = 0, 15, 30, 45 the sum is
\* exactly 24 and the sunrise hour exactly 12, 11, 10, 9.
C2_SumNear24 ==
    Done("sunrise_from_SHA") =>
        \A i \in DOMAIN ret :
            /\ ret[i].k = "f64" /\ prev.ret[i].k = "f64"
            /\ ~MagLess(Pow2Neg(47),
                        F64Dist(DaylightPlusTwiceSunrise(i), F64Int(24)))
            /\ \A n \in 0..3 :
                  args[1][i] = FromInt(15 * n) =>
                      /\ ret[i] = F64Int(12 - n)
                      /\ DaylightPlusTwiceSunrise(i) = F64Int(24)

\* SHA = 124: the sum is 24 - 2^-48
C2_Witness ==
    /\ Done("sunrise_from_SHA")
    /\ args[1][1] = FromInt(124)
    /\ DaylightPlusTwiceSunrise(1) # F64Int(24)
    /\ F64Dist(DaylightPlusTwiceSunrise(1), F64Int(24)) = Pow2Neg(48)

\* C3 as stated (Spec): calculate_SZA_from_datetime returns the zenith
\* angle, a number of degrees, for every time, latitude and longitude; no
\* call ends in an error raised inside the function.
C3_ReturnsSZA ==
    Done("calculate_SZA_from_datetime") => ret.k \in {"num", "nan"}

\* C4 (Spec): calculate_solar_azimuth returns normally, with NaN at every
\* element whose SZA_deg is exactly 0 whatever the declination and the hour
\* there; every other element has the value the function gives for that
\* element alone.
C4_AzimuthSingularity ==
    Done("calculate_solar_azimuth") =>
        /\ DOMAIN ret = DOMAIN args[2]
        /\ \A i \in DOMAIN ret :
              IF args[2][i] = FromInt(0) THEN IsNaN(ret[i])
              ELSE ret[i] = calculate_solar_azimuth(
                               <<args[1][i]>>, <<args[2][i]>>, <<args[3][i]>>)[1]

\* one call with SZA_deg = [0, 60]: NaN at the first element, an angle at
\* the second
C4_Witness ==
    /\ Done("calculate_solar_azimuth")
    /\ Len(ret) = 2
    /\ args[2] = <<FromInt(0), FromInt(60)>>
    /\ IsNaN(ret[1])
    /\ IsNum(ret[2])

C6_DaylightRange ==
    (Done("daylight_from_SHA") /\ prev.k = "call") =>
        \A i \in DOMAIN ret :
            /\ ret[i].k = "f64"
            /\ F64Le(F64Int(0), ret[i]) /\ F64Le(ret[i], F64Int(24))
            /\ FGe(prev.loc.sunrise_cos[i], 1) => ret[i] = F64Int(0)
            /\ FLe(prev.loc.sunrise_cos[i], -1) => ret[i] = F64Int(24)

\* a polar day: 24 hours of daylight
C6_Witness ==
    /\ Done("daylight_from_SHA") /\ prev.k = "call"
    /\ FLe(prev.loc.sunrise_cos[1], -1)
    /\ ret[1] = F64Int(24)

C8_Elementwise ==
    (pc = "done" /\ fn \in ArrayFns) =>
        /\ \A n \in DOMAIN args : DOMAIN ret = DOMAIN args[n]
        /\ prev.k = "call" =>
              \A i \in DOMAIN ret :
                  (\A n \in DOMAIN args : args[n][i] = prev.args[n][i])
                      => ret[i] = prev.ret[i]

\* the azimuth called again with the first SZA changed to 0: the first
\* element becomes NaN, the second keeps its angle
C8_Witness ==
    /\ Done("calculate_solar_azimuth") /\ prev.k = "call"
    /\ Len(ret) = 2
    /\ IsNum(prev.ret[1]) /\ IsNaN(ret[1])
    /\ IsNum(ret[2]) /\ ret[2] = prev.ret[2]

\* the hour and the hour angle of element i of a call of
\* SZA_deg_from_lat_dec_hour or calculate_solar_azimuth
HourAngleCall ==
    pc = "done" /\ fn \in {"SZA_deg_from_lat_dec_hour", "calculate_solar_azimuth"}

====
